---- MODULE Spec2Model ----
(***************************************************************************)
(* A model of jsonrpcserver/response.py: the JSON-RPC response objects     *)
(* (NotificationResponse, RequestResponse, ErrorResponse,                  *)
(* ExceptionResponse, BatchResponse), their constructors and their         *)
(* __str__ serialisers, with _sort_response as the code computes it.       *)
(*                                                                         *)
(* Python values are tagged records of one shape, a dict is its key        *)
(* sequence in iteration order plus its values, and a JSON text is the     *)
(* sequence of its tokens.  The iteration order of a plain dict is a fact  *)
(* of the interpreter the process runs on: insertion order on CPython 3.7  *)
(* and later, hash order before that.  dictOrder holds that order for the  *)
(* process; the identity permutation is insertion order.                   *)
(***************************************************************************)
EXTENDS Integers, Sequences, FiniteSets, TLC

VARIABLES
    debug,                \* ErrorResponse.debug (class attribute)
    notification_errors,  \* ErrorResponse.notification_errors (class attribute)
    dictOrder,            \* iteration order of plain dicts in this process
    objs,                 \* the response objects alive, in construction order
    batch,                \* the BatchResponse of the cycle, if one was built
    last                  \* the last call: its arguments and what it returned

vars == <<debug, notification_errors, dictOrder, objs, batch, last>>

----------------------------------------------------------------------------
(* Bounds of the model. *)

\* Integers used as ids are 0..MaxInt.
MaxInt == 1
\* A batch cycle constructs at most MaxBatch responses.
MaxBatch == 3

----------------------------------------------------------------------------
(* Python values. *)

PyNone == [t |-> "NoneType", n |-> 0, s |-> ""]
PyInt(k) == [t |-> "int", n |-> k, s |-> ""]
PyStr(x) == [t |-> "str", n |-> 0, s |-> x]
PyFalse == [t |-> "bool", n |-> 0, s |-> ""]
\* The empty list [].
PyEmptyList == [t |-> "list", n |-> 0, s |-> ""]

\* Python's truth value of v, as `not v` and `a and v` test it.
Truthy(v) ==
    CASE v.t = "NoneType" -> FALSE
      [] v.t = "int" -> v.n # 0
      [] v.t = "bool" -> v.n # 0
      [] v.t = "str" -> v.s # ""
      [] v.t = "list" -> v.n # 0

HTTP_OK == 200
HTTP_NO_CONTENT == 204

----------------------------------------------------------------------------
(* Input domains. *)

Ids == {PyNone, PyStr(""), PyStr("a")} \cup {PyInt(k) : k \in 0..MaxInt}
Results == {PyNone, PyInt(5), PyEmptyList}
Datas == {PyNone, PyInt(0), PyFalse, PyStr(""), PyEmptyList, PyStr("trace")}
Statuses == {200, 400, 404}
\* (code, message) pairs handed to ErrorResponse.
Errors ==
    { [code |-> -32700, message |-> "Parse error"],
      [code |-> -32600, message |-> "Invalid Request"],
      [code |-> -32601, message |-> "Method not found"] }

\* What `ex` can be in ExceptionResponse(ex, request_id): an instance of
\* JsonRpcServerError with its four attributes, or any other exception, of
\* which only str(ex) is read.
Failure(known, http_status, code, message, data, desc) ==
    [known |-> known, http_status |-> http_status, code |-> code,
     message |-> message, data |-> data, desc |-> desc]
Failures ==
    { Failure(TRUE, 400, -32700, "Parse error", d, "") : d \in {PyNone, PyStr("trace")} }
    \cup { Failure(TRUE, 404, -32601, "Method not found", d, "")
             : d \in {PyNone, PyInt(0), PyStr("trace")} }
    \cup { Failure(FALSE, 0, 0, "", PyNone, "boom") }

\* The smaller domains of a batch cycle.
BatchIds == {PyNone, PyInt(1)}
BatchFailures ==
    { Failure(TRUE, 404, -32601, "Method not found", PyStr("trace"), "") }

----------------------------------------------------------------------------
(* Plain dicts. *)

Perms == { p \in [1..3 -> 1..3] : \A i, j \in 1..3 : p[i] = p[j] => i = j }
Identity == [i \in 1..3 |-> i]
Reversed == [i \in 1..3 |-> 4 - i]

Range(f) == { f[i] : i \in DOMAIN f }

\* The iteration order of a dict into which the three keys `inserted` were
\* put in that order, on a process whose dicts iterate by `perm`.
DictKeys(inserted, perm) == [i \in 1..3 |-> inserted[perm[i]]]

\* The keys of `keys` that are in `present`, in the order of `keys`.
Restrict(keys, present) == SelectSeq(keys, LAMBDA k : k \in present)

----------------------------------------------------------------------------
(* JSON text, as tokens. *)

Tok(t, n, s) == [t |-> t, n |-> n, s |-> s]
LBrace == Tok("{", 0, "")
RBrace == Tok("}", 0, "")
Key(k) == Tok("key", 0, k)

\* json.dumps of a scalar or of the empty list.
JsonValue(v) ==
    CASE v.t = "NoneType" -> Tok("null", 0, "")
      [] v.t = "int" -> Tok("number", v.n, "")
      [] v.t = "bool" -> IF v.n # 0 THEN Tok("true", 0, "") ELSE Tok("false", 0, "")
      [] v.t = "str" -> Tok("string", 0, v.s)
      [] v.t = "list" -> Tok("array", v.n, "")

----------------------------------------------------------------------------
(* The response objects. *)

\* Every object is a record of one shape; `keys` is the iteration order of
\* the dict the object is, `ekeys` that of the dict under its 'error' key.
Obj(cls, keys, result, id, ekeys, code, message, data, http_status) ==
    [cls |-> cls, keys |-> keys, jsonrpc |-> PyStr("2.0"), result |-> result,
     id |-> id, ekeys |-> ekeys, code |-> code, message |-> message,
     data |-> data, http_status |-> http_status]

NotificationResponseInit ==
    Obj("NotificationResponse", <<>>, PyNone, PyNone, <<>>, 0, "", PyNone,
        HTTP_NO_CONTENT)

IsDict(o) == o.cls # "NotificationResponse"

\* The mutant of HasId that lets every id through.
HasIdUnchecked(request_id) == TRUE

\* The test of RequestResponse.__init__ on its request_id: `not request_id`
\* is false.
HasId(request_id) == Truthy(request_id)

\* RequestResponse.__init__: [raised, obj].
RequestResponseInit(request_id, result) ==
    IF ~HasId(request_id)
    THEN [raised |-> "ValueError", obj |-> NotificationResponseInit]
    ELSE [raised |-> "",
          obj |-> Obj("RequestResponse",
                      DictKeys(<<"jsonrpc", "result", "id">>, dictOrder.root),
                      result, request_id, <<>>, 0, "", PyNone, HTTP_OK)]

\* The mutant of AttachData that forgets the debug flag.
AttachDataAlways(data) == Truthy(data)

\* The gate of ErrorResponse.__init__ on the data attribute.
AttachData(data) == debug /\ Truthy(data)

\* The mutant of ErrorHttpStatus that answers 200 whenever the id is known.
ErrorHttpStatusById(http_status, request_id) ==
    IF request_id # PyNone THEN HTTP_OK ELSE http_status

\* The http_status ErrorResponse.__init__ stores on the instance.
ErrorHttpStatus(http_status, request_id) == http_status

\* The mutant of ErrorId that nulls the id of a parse error or an invalid
\* request.
ErrorIdNullIfMalformed(request_id, code) ==
    IF code \in {-32700, -32600} THEN PyNone ELSE request_id

\* The value ErrorResponse.__init__ stores under 'id'.
ErrorId(request_id, code) == request_id

\* ErrorResponse.__init__.
ErrorResponseInit(http_status, request_id, code, message, data) ==
    LET full == DictKeys(<<"code", "message", "data">>, dictOrder.error)
    IN  Obj("ErrorResponse",
            DictKeys(<<"jsonrpc", "error", "id">>, dictOrder.root),
            PyNone, ErrorId(request_id, code),
            IF AttachData(data) THEN full ELSE Restrict(full, {"code", "message"}),
            code, message,
            IF AttachData(data) THEN data ELSE PyNone,
            ErrorHttpStatus(http_status, request_id))

\* exceptions.ServerError(message): the catch-all kind.
ServerError(message) == Failure(TRUE, 500, -32000, message, PyNone, "")

\* ExceptionResponse.__init__.
ExceptionResponseInit(ex, request_id) ==
    LET e == IF ~ex.known THEN ServerError(ex.desc) ELSE ex
    IN  [ErrorResponseInit(e.http_status, request_id, e.code, e.message, e.data)
            EXCEPT !.cls = "ExceptionResponse"]

\* The mutant of BatchResponseInit that drops the notifications.
BatchResponseInitFiltering(responses) ==
    SelectSeq(responses, LAMBDA i : IsDict(objs[i]))

\* BatchResponse(responses): list.__init__ keeps every element, in order.
BatchResponseInit(responses) == responses

\* The http_status attribute of an object.
HttpStatus(o) == o.http_status

----------------------------------------------------------------------------
(* _sort_response and __str__. *)

root_order == <<"jsonrpc", "result", "error", "id">>
error_order == <<"code", "message", "data">>

\* order.index(k)
IndexOf(order, k) == CHOOSE i \in 1..Len(order) : order[i] = k

RemoveAt(s, m) == [i \in 1..(Len(s) - 1) |-> IF i < m THEN s[i] ELSE s[i + 1]]

\* sorted(keys, key=order.index)
RECURSIVE Sorted(_, _)
Sorted(keys, order) ==
    IF keys = <<>> THEN <<>>
    ELSE LET m == CHOOSE i \in 1..Len(keys) :
                    \A j \in 1..Len(keys) :
                        IndexOf(order, keys[i]) <= IndexOf(order, keys[j])
         IN  <<keys[m]>> \o Sorted(RemoveAt(keys, m), order)

\* The mutant of SortResponse whose error_order lacks 'data': the sorted
\* 'error' dict it stores back loses that key.
SortResponseLosingData(o) ==
    LET r == IF "error" \in Range(o.keys)
             THEN [o EXCEPT !.ekeys = Restrict(Sorted(o.ekeys, error_order),
                                               {"code", "message"})]
             ELSE o
    IN  [response |-> r,
         value |-> [o EXCEPT !.keys = Sorted(o.keys, root_order),
                             !.ekeys = Sorted(o.ekeys, error_order)]]

\* _sort_response(response): `response` is the argument as the call leaves
\* it (its 'error' dict replaced by a sorted one), `value` what is returned.
SortResponse(o) ==
    LET r == IF "error" \in Range(o.keys)
             THEN [o EXCEPT !.ekeys = Sorted(o.ekeys, error_order)]
             ELSE o
    IN  [response |-> r, value |-> [r EXCEPT !.keys = Sorted(r.keys, root_order)]]

RECURSIVE ErrorItems(_, _)
ErrorItems(o, ks) ==
    IF ks = <<>> THEN <<>>
    ELSE LET k == Head(ks)
         IN  <<Key(k),
               CASE k = "code" -> JsonValue(PyInt(o.code))
                 [] k = "message" -> JsonValue(PyStr(o.message))
                 [] k = "data" -> JsonValue(o.data)>>
             \o ErrorItems(o, Tail(ks))

RECURSIVE Items(_, _)
Items(o, ks) ==
    IF ks = <<>> THEN <<>>
    ELSE LET k == Head(ks)
         IN  <<Key(k)>>
             \o (CASE k = "jsonrpc" -> <<JsonValue(o.jsonrpc)>>
                   [] k = "result" -> <<JsonValue(o.result)>>
                   [] k = "id" -> <<JsonValue(o.id)>>
                   [] k = "error" ->
                        <<LBrace>> \o ErrorItems(o, o.ekeys) \o <<RBrace>>)
             \o Items(o, Tail(ks))

\* json.dumps of a dict, in its iteration order.
Dumps(o) == <<LBrace>> \o Items(o, o.keys) \o <<RBrace>>

\* What str(o) returns.
Str(o) == IF IsDict(o) THEN Dumps(SortResponse(o).value) ELSE <<>>

\* The object as str(o) leaves it.
AfterStr(o) == IF IsDict(o) THEN SortResponse(o).response ELSE o

\* BatchResponse.__str__: json.dumps(self) encodes a dict element as it
\* iterates and raises TypeError on anything it cannot encode.
BatchStr(items) ==
    IF \E i \in DOMAIN items : ~IsDict(objs[items[i]])
    THEN [raised |-> "TypeError", outs |-> <<>>]
    ELSE [raised |-> "", outs |-> [i \in DOMAIN items |-> Dumps(objs[items[i]])]]

----------------------------------------------------------------------------
(* The state machine. *)

NoCall ==
    [op |-> "", raised |-> "", request_id |-> PyNone, result |-> PyNone,
     http_status |-> 0, code |-> 0, message |-> "", data |-> PyNone,
     known |-> FALSE, desc |-> "", idx |-> 0, out |-> <<>>, outs |-> <<>>,
     items |-> <<>>]

NoBatch == [made |-> FALSE, items |-> <<>>]

Init ==
    /\ debug = FALSE
    /\ notification_errors = FALSE
    /\ dictOrder \in [root : Perms, error : Perms]
    /\ objs = <<>>
    /\ batch = NoBatch
    /\ last = NoCall

\* ErrorResponse.debug = b
SetDebug(b) ==
    /\ debug' = b
    /\ last' = NoCall
    /\ UNCHANGED <<notification_errors, dictOrder, objs, batch>>

\* ErrorResponse.notification_errors = b
SetNotificationErrors(b) ==
    /\ notification_errors' = b
    /\ last' = NoCall
    /\ UNCHANGED <<debug, dictOrder, objs, batch>>

\* NotificationResponse()
NewNotificationResponse(cap) ==
    /\ Len(objs) < cap
    /\ ~batch.made
    /\ objs' = Append(objs, NotificationResponseInit)
    /\ last' = [NoCall EXCEPT !.op = "NotificationResponse"]
    /\ UNCHANGED <<debug, notification_errors, dictOrder, batch>>

\* RequestResponse(request_id, result)
NewRequestResponse(cap, request_id, result) ==
    /\ Len(objs) < cap
    /\ ~batch.made
    /\ LET r == RequestResponseInit(request_id, result)
       IN  /\ objs' = IF r.raised = "" THEN Append(objs, r.obj) ELSE objs
           /\ last' = [NoCall EXCEPT !.op = "RequestResponse",
                                     !.raised = r.raised,
                                     !.request_id = request_id,
                                     !.result = result]
    /\ UNCHANGED <<debug, notification_errors, dictOrder, batch>>

\* ErrorResponse(http_status, request_id, code, message, data)
NewErrorResponse(cap, http_status, request_id, code, message, data) ==
    /\ Len(objs) < cap
    /\ ~batch.made
    /\ objs' = Append(objs,
                  ErrorResponseInit(http_status, request_id, code, message, data))
    /\ last' = [NoCall EXCEPT !.op = "ErrorResponse",
                              !.http_status = http_status,
                              !.request_id = request_id,
                              !.code = code,
                              !.message = message,
                              !.data = data]
    /\ UNCHANGED <<debug, notification_errors, dictOrder, batch>>

\* ExceptionResponse(ex, request_id)
NewExceptionResponse(cap, ex, request_id) ==
    /\ Len(objs) < cap
    /\ ~batch.made
    /\ objs' = Append(objs, ExceptionResponseInit(ex, request_id))
    /\ last' = [NoCall EXCEPT !.op = "ExceptionResponse",
                              !.http_status = ex.http_status,
                              !.request_id = request_id,
                              !.code = ex.code,
                              !.message = ex.message,
                              !.data = ex.data,
                              !.known = ex.known,
                              !.desc = ex.desc]
    /\ UNCHANGED <<debug, notification_errors, dictOrder, batch>>

\* str(objs[i])
Serialize(i) ==
    /\ objs' = [objs EXCEPT ![i] = AfterStr(objs[i])]
    /\ last' = [NoCall EXCEPT !.op = "str", !.idx = i, !.out = Str(objs[i])]
    /\ UNCHANGED <<debug, notification_errors, dictOrder, batch>>

\* The response is dropped after it was sent.
Destroy ==
    /\ objs # <<>>
    /\ objs' = <<>>
    /\ last' = NoCall
    /\ UNCHANGED <<debug, notification_errors, dictOrder, batch>>

\* BatchResponse(responses), of the responses of the cycle in their order.
NewBatchResponse ==
    /\ ~batch.made
    /\ LET responses == [i \in 1..Len(objs) |-> i]
       IN  /\ batch' = [made |-> TRUE, items |-> BatchResponseInit(responses)]
           /\ last' = [NoCall EXCEPT !.op = "BatchResponse", !.items = responses]
    /\ UNCHANGED <<debug, notification_errors, dictOrder, objs>>

\* str(batch)
SerializeBatch ==
    /\ batch.made
    /\ LET r == BatchStr(batch.items)
       IN  last' = [NoCall EXCEPT !.op = "strBatch", !.raised = r.raised,
                                  !.outs = r.outs]
    /\ UNCHANGED <<debug, notification_errors, dictOrder, objs, batch>>

\* One response per request: constructed, serialised any number of times
\* while the configuration may change, then dropped.
Next ==
    \/ \E b \in BOOLEAN : SetDebug(b)
    \/ \E b \in BOOLEAN : SetNotificationErrors(b)
    \/ NewNotificationResponse(1)
    \/ \E id \in Ids, r \in Results : NewRequestResponse(1, id, r)
    \/ \E h \in Statuses, id \in Ids, e \in Errors, d \in Datas :
          NewErrorResponse(1, h, id, e.code, e.message, d)
    \/ \E ex \in Failures, id \in Ids : NewExceptionResponse(1, ex, id)
    \/ \E i \in DOMAIN objs : Serialize(i)
    \/ Destroy

Spec == Init /\ [][Next]_vars

\* One batch cycle: the configuration is set before the first response is
\* made, the responses are collected, the batch is built and serialised.
InitBatch ==
    /\ Init
    /\ dictOrder \in [root : {Identity, Reversed}, error : {Identity, Reversed}]

NextBatch ==
    \/ \E b \in BOOLEAN : objs = <<>> /\ SetDebug(b)
    \/ NewNotificationResponse(MaxBatch)
    \/ \E id \in BatchIds : NewRequestResponse(MaxBatch, id, PyInt(5))
    \/ \E ex \in BatchFailures, id \in BatchIds :
          NewExceptionResponse(MaxBatch, ex, id)
    \/ \E i \in DOMAIN objs : Serialize(i)
    \/ NewBatchResponse
    \/ SerializeBatch

SpecBatch == InitBatch /\ [][NextBatch]_vars

----------------------------------------------------------------------------
(* The claims. *)

LastObj == objs[Len(objs)]

IsError(o) == o.cls \in {"ErrorResponse", "ExceptionResponse"}

MadeError == last.op \in {"ErrorResponse", "ExceptionResponse"}

HasData(o) == "data" \in Range(o.ekeys)

\* The wire form {"jsonrpc": "2.0", "result": result, "id": id}.
SuccessWire(id, result) ==
    <<LBrace, Key("jsonrpc"), Tok("string", 0, "2.0"),
      Key("result"), JsonValue(result), Key("id"), JsonValue(id), RBrace>>

\* C1: for every id other than None (0 and "" included) and every result,
\* RequestResponse(id, result) succeeds and its str is exactly the keys
\* jsonrpc, result, id, in that order, with the given values.
C1_EveryNonNullIdSucceeds ==
    (last.op = "RequestResponse" /\ last.request_id # PyNone) =>
        /\ last.raised = ""
        /\ objs # <<>>
        /\ LastObj.cls = "RequestResponse"
        /\ Str(LastObj) = SuccessWire(last.request_id, last.result)

\* C2: RequestResponse(None, result) raises ValueError for every result and
\* makes no object; every RequestResponse alive has an id other than None.
C2_NullIdRejected ==
    /\ (last.op = "RequestResponse" /\ last.request_id = PyNone) =>
           (last.raised = "ValueError" /\ objs = <<>>)
    /\ \A i \in DOMAIN objs :
           objs[i].cls = "RequestResponse" => objs[i].id # PyNone

C2_Witness ==
    /\ last.op = "RequestResponse"
    /\ last.request_id = PyNone
    /\ last.result = PyInt(5)
    /\ last.raised = "ValueError"

\* C3: an error response made while debug is false has no data key, in the
\* object and in its str, whatever data was supplied, through ErrorResponse
\* and through ExceptionResponse.
C3_NoDataWithoutDebug ==
    (MadeError /\ ~debug) =>
        /\ ~HasData(LastObj)
        /\ Key("data") \notin Range(Str(LastObj))

C3_Witness ==
    /\ MadeError
    /\ ~debug
    /\ last.data = PyStr("trace")
    /\ IsError(LastObj)
    /\ Key("error") \in Range(Str(LastObj))

\* C4: an error response made while debug is true, with a data value
\* supplied (0, False, "" and [] included), has a data key whose value is
\* the supplied one.
C4_SuppliedDataAttached ==
    (MadeError /\ debug /\ last.data # PyNone) =>
        (HasData(LastObj) /\ LastObj.data = last.data)

\* C5: a BatchResponse holds no NotificationResponse.
C5_BatchElidesNotifications ==
    batch.made =>
        \A i \in DOMAIN batch.items :
            objs[batch.items[i]].cls # "NotificationResponse"

\* C5, amended: BatchResponse(responses) holds exactly the given responses,
\* NotificationResponse entries included, in the given order.
C5_BatchKeepsEveryResponse ==
    last.op = "BatchResponse" =>
        /\ batch.made
        /\ Len(batch.items) = Len(last.items)
        /\ \A i \in DOMAIN last.items : batch.items[i] = last.items[i]

C5_Witness ==
    /\ last.op = "BatchResponse"
    /\ Len(last.items) = 3
    /\ objs[1].cls = "RequestResponse"
    /\ objs[2].cls = "NotificationResponse"
    /\ objs[3].cls = "ExceptionResponse"
    /\ Len(batch.items) = 3

\* C6: ExceptionResponse(ex, id) is an error response with the given id;
\* for a JsonRpcServerError its code and message are those of ex and its
\* data is that of ex exactly when debug is set and ex carries data;
\* for any other exception the code is ServerError's and the message comes
\* from str(ex).
C6_ExceptionMapped ==
    last.op = "ExceptionResponse" =>
        /\ IsError(LastObj)
        /\ Range(LastObj.keys) = {"jsonrpc", "error", "id"}
        /\ LastObj.id = last.request_id
        /\ last.known =>
              /\ LastObj.code = last.code
              /\ LastObj.message = last.message
              /\ HasData(LastObj) <=> (debug /\ last.data # PyNone)
              /\ HasData(LastObj) => LastObj.data = last.data
        /\ ~last.known =>
              /\ LastObj.code = ServerError(last.desc).code
              /\ LastObj.message = last.desc

\* C7: every error response whose code is -32700 or -32600 has id None.
C7_MalformedHasNullId ==
    \A i \in DOMAIN objs :
        (IsError(objs[i]) /\ objs[i].code \in {-32700, -32600}) =>
            objs[i].id = PyNone

\* C7, amended: an error response carries the request id handed to
\* ErrorResponse or to ExceptionResponse, for every code (-32700 and -32600
\* included) and whatever notification_errors is: None exactly when None
\* was handed in.
C7_IdAsGiven ==
    MadeError => (IsError(LastObj) /\ LastObj.id = last.request_id)

C7_Witness ==
    /\ last.op = "ErrorResponse"
    /\ last.code = -32700
    /\ last.request_id = PyInt(1)
    /\ notification_errors
    /\ LastObj.id = PyInt(1)
    /\ Str(LastObj)[Len(Str(LastObj)) - 1] = Tok("number", 1, "")

C9_BatchStrIsElementwiseStr ==
    (last.op = "strBatch" /\ last.raised = "") =>
        /\ Len(last.outs) = Len(batch.items)
        /\ \A i \in DOMAIN batch.items :
              last.outs[i] = Str(objs[batch.items[i]])

\* What a caller can read of a response.
Observables(o) ==
    [cls |-> o.cls, id |-> o.id, result |-> o.result, code |-> o.code,
     message |-> o.message, hasData |-> HasData(o), data |-> o.data,
     http_status |-> HttpStatus(o)]

\* C10: no step (a str of the response, a change of debug or of
\* notification_errors) changes the id, result, code, message, data or
\* http_status of a response that stays alive, or what its str returns; and
\* str returns that wire form.
C10_NeverChanged ==
    [][/\ \A i \in DOMAIN objs :
              i \in DOMAIN objs' =>
                  /\ Observables(objs'[i]) = Observables(objs[i])
                  /\ Str(objs'[i]) = Str(objs[i])
       /\ last'.op = "str" =>
              /\ last'.out = Str(objs[last'.idx])
              /\ last'.out = Str(objs'[last'.idx])]_vars

C10_Witness ==
    /\ last.op = "str"
    /\ objs # <<>>
    /\ IsError(LastObj)
    /\ HasData(LastObj)
    /\ ~debug
    /\ notification_errors
    /\ dictOrder.error = Reversed
    /\ LastObj.ekeys = error_order
    /\ last.out = Str(LastObj)

====
